---- MODULE Spec2Model ----
(***************************************************************************)
(* Market-session clock of the CRTV trading app (frontend/src/App.js).     *)
(*                                                                         *)
(* The app samples the America/Toronto wall clock, derives the weekend     *)
(* flag (isWeekend), the per-session open/closed status (getSessionStatus, *)
(* SessionCard) and the per-session countdown (getCountdown).              *)
(*                                                                         *)
(* JavaScript numbers are IEEE-754 doubles.  The times of day the code     *)
(* computes (hour + minute / 60) and the countdown arithmetic are modelled *)
(* as correctly rounded binary64 operations on fixed-point limb vectors,   *)
(* so that Math.floor of an inexact product behaves as it does in the      *)
(* browser.                                                                *)
(***************************************************************************)
EXTENDS Integers, Sequences, FiniteSets, TLC

VARIABLES now, isWeekendMode, displayOpen, countdown,
          symbol, risk, stop, tp, calculation, riskTier,
          journalEntries, crtv_journal, journalPhase, dateNow

clockVars == <<now, isWeekendMode, displayOpen, countdown>>

calculatorVars == <<symbol, risk, stop, tp, calculation, riskTier>>

\* journalEntries is the state of App, crtv_journal the localStorage item of
\* that key, journalPhase the position of the journal's render cycle:
\* "loaded" after useState's initialiser, "changed" after a setJournalEntries,
\* "saved" once the render and its save effect have run; dateNow is the
\* millisecond clock as Date.now() last showed it
journalVars == <<journalEntries, crtv_journal, journalPhase, dateNow>>

vars == <<clockVars, calculatorVars, journalVars>>

(***************************************************************************)
(* Binary64 arithmetic on the non-negative values the code produces.       *)
(*                                                                         *)
(* A value x is the vector <<x[1], x[2], x[3], x[4]>> standing for         *)
(*     x[1] + x[2] / 2^20 + x[3] / 2^40 + x[4] / 2^60                      *)
(* with 0 <= x[2], x[3], x[4] < 2^20.  Every double the code computes is   *)
(* below 2^13 and is a multiple of 2^-60 (the smallest non-zero operand is *)
(* 1/60 >= 2^-6, whose unit in the last place is 2^-58), so the vector     *)
(* holds it exactly; FRound rounds an exact result to 53 significant bits, *)
(* ties to even, as every binary64 operation does.                         *)
(***************************************************************************)
LimbBits == 4 * 5

Limb == 2 ^ LimbBits

MantissaBits == 52 + 1

HalfLimb == 2 ^ (LimbBits \div 2)

RECURSIVE BitLength(_)
BitLength(n) == IF n = 0 THEN 0 ELSE 1 + BitLength(n \div 2)

FromInt(n) == <<n, 0, 0, 0>>

FHalf == <<0, Limb \div 2, 0, 0>>

\* Number of significant bits of x counted from the 2^-60 position.
FBitLength(x) ==
    IF x[1] # 0 THEN 3 * LimbBits + BitLength(x[1])
    ELSE IF x[2] # 0 THEN 2 * LimbBits + BitLength(x[2])
    ELSE IF x[3] # 0 THEN LimbBits + BitLength(x[3])
    ELSE BitLength(x[4])

\* Carry (or borrow) propagation: brings every fraction limb back to 0..Limb-1.
FNorm(x) ==
    LET b3 == x[3] + (x[4] \div Limb)
        b2 == x[2] + (b3 \div Limb)
    IN  <<x[1] + (b2 \div Limb), b2 % Limb, b3 % Limb, x[4] % Limb>>

\* Carry propagation on a limb vector of any length in the given base
RECURSIVE VNorm(_, _)
VNorm(v, base) ==
    IF Len(v) = 1 THEN v
    ELSE LET n    == Len(v)
             head == [i \in 1 .. n - 1 |->
                         IF i = n - 1 THEN v[i] + (v[n] \div base) ELSE v[i]]
         IN  Append(VNorm(head, base), v[n] % base)

\* Number of significant bits of a limb vector, counted from its last bit
RECURSIVE VBitLength(_)
VBitLength(v) ==
    IF v[1] # 0 THEN (Len(v) - 1) * LimbBits + BitLength(v[1])
    ELSE IF Len(v) = 1 THEN 0
    ELSE VBitLength(Tail(v))

\* Round to nearest, ties to even, at 53 significant bits, a limb vector of
\* any length.  sticky tells that the exact value has non-zero bits below the
\* last limb (an inexact quotient).  The bits below the last kept bit `unit`
\* of limb j are dropped: lowTop is their part in the first limb they reach,
\* half the weight of their first bit there, rest tells that bits lie below.
VRoundUnit(v, j, unit, lowTop, half, rest) ==
    LET up == lowTop > half \/ (lowTop = half /\ (rest \/ (v[j] \div unit) % 2 = 1))
    IN  VNorm([i \in 1 .. Len(v) |->
                  IF i < j THEN v[i]
                  ELSE IF i > j THEN 0
                  ELSE v[j] - (v[j] % unit) + (IF up THEN unit ELSE 0)], Limb)

\* The last kept bit is bit r of limb j
VRoundAt(v, sticky, j, r) ==
    IF r >= 1
    THEN VRoundUnit(v, j, 2 ^ r, v[j] % (2 ^ r), 2 ^ (r - 1),
                    sticky \/ \E i \in j + 1 .. Len(v) : v[i] # 0)
    ELSE VRoundUnit(v, j, 1, v[j + 1], Limb \div 2,
                    sticky \/ \E i \in j + 2 .. Len(v) : v[i] # 0)

\* k bits are to be dropped
VRoundBits(v, sticky, k) ==
    IF k <= 0 THEN v
    ELSE VRoundAt(v, sticky, Len(v) - (k \div LimbBits), k % LimbBits)

VRound(v, sticky) == VRoundBits(v, sticky, VBitLength(v) - MantissaBits)

\* The rounding of every binary64 operation, on the four-limb vectors
FRound(x, sticky) == VRound(x, sticky)

FLess(a, b) ==
    \/ a[1] < b[1]
    \/ a[1] = b[1] /\ a[2] < b[2]
    \/ a[1] = b[1] /\ a[2] = b[2] /\ a[3] < b[3]
    \/ a[1] = b[1] /\ a[2] = b[2] /\ a[3] = b[3] /\ a[4] < b[4]

FLeq(a, b) == ~FLess(b, a)

\* a + b
FAdd(a, b) ==
    FRound(FNorm(<<a[1] + b[1], a[2] + b[2], a[3] + b[3], a[4] + b[4]>>), FALSE)

\* a - b for a >= b
FSub(a, b) ==
    FRound(FNorm(<<a[1] - b[1], a[2] - b[2], a[3] - b[3], a[4] - b[4]>>), FALSE)

\* x * 60
FMul60(x) ==
    FRound(FNorm(<<x[1] * 60, x[2] * 60, x[3] * 60, x[4] * 60>>), FALSE)

\* n / 60 for an integer 0 <= n < 60, by long division limb by limb
FDiv60(n) ==
    LET n2 == n * Limb
        n3 == (n2 % 60) * Limb
        n4 == (n3 % 60) * Limb
    IN  FRound(<<0, n2 \div 60, n3 \div 60, n4 \div 60>>, n4 % 60 # 0)

\* Math.floor of a non-negative value
FFloor(x) == x[1]

\* x - Math.floor(x): exact, the fraction limbs are part of x's mantissa
FFrac(x) == <<0, x[2], x[3], x[4]>>

\* x is an integer below 2^10
IsSmallInt(x) == x[2] = 0 /\ x[3] = 0 /\ x[4] = 0 /\ x[1] < HalfLimb

\* The 10-bit digits of x: d[i] has weight 2^(10 * (2 - i))
Digits(x) ==
    <<x[1] \div HalfLimb, x[1] % HalfLimb, x[2] \div HalfLimb, x[2] % HalfLimb,
      x[3] \div HalfLimb, x[3] % HalfLimb, x[4] \div HalfLimb, x[4] % HalfLimb>>

\* Sum of da[i] * db[k - i] for i in lo .. hi
RECURSIVE SumProducts(_, _, _, _, _)
SumProducts(da, db, k, lo, hi) ==
    IF lo > hi THEN 0
    ELSE da[lo] * db[k - lo] + SumProducts(da, db, k, lo + 1, hi)

\* a * b.  By a small integer the limbs are multiplied directly; otherwise
\* the exact product is formed by schoolbook multiplication of the 10-bit
\* digits (FMulExact: 16 digits, the last of weight 2^-120) and gathered
\* into seven limbs (FMulDigits); in both cases the exact product is then
\* rounded.
FMulDigits(dig) ==
    SubSeq(VRound(<<dig[1] * Limb * HalfLimb + dig[2] * Limb + dig[3] * HalfLimb + dig[4],
                    dig[5] * HalfLimb + dig[6], dig[7] * HalfLimb + dig[8],
                    dig[9] * HalfLimb + dig[10], dig[11] * HalfLimb + dig[12],
                    dig[13] * HalfLimb + dig[14], dig[15] * HalfLimb + dig[16]>>,
                  FALSE), 1, 4)

FMulExact(da, db) ==
    FMulDigits(VNorm([k \in 1 .. 16 |->
                         SumProducts(da, db, k, IF k > 9 THEN k - 8 ELSE 1,
                                                IF k > 8 THEN 8 ELSE k - 1)],
                     HalfLimb))

FMul(a, b) ==
    IF IsSmallInt(b)
    THEN FRound(FNorm(<<a[1] * b[1], a[2] * b[1], a[3] * b[1], a[4] * b[1]>>), FALSE)
    ELSE IF IsSmallInt(a)
    THEN FRound(FNorm(<<b[1] * a[1], b[2] * a[1], b[3] * a[1], b[4] * a[1]>>), FALSE)
    ELSE FMulExact(Digits(a), Digits(b))

\* Twice a vector, and the difference of two vectors, without rounding
VDouble(x) == FNorm(<<2 * x[1], 2 * x[2], 2 * x[3], 2 * x[4]>>)

VMinus(a, b) == FNorm(<<a[1] - b[1], a[2] - b[2], a[3] - b[3], a[4] - b[4]>>)

\* Integer part of a / b and the remainder, for b > 0, by doubling the divisor
RECURSIVE IntDiv(_, _)
\* One bit more of the quotient h of a by 2b
IntDivStep(h, b) ==
    IF FLeq(b, h.r) THEN [q |-> 2 * h.q + 1, r |-> VMinus(h.r, b)]
    ELSE [q |-> 2 * h.q, r |-> h.r]

IntDiv(a, b) ==
    IF FLess(a, b) THEN [q |-> 0, r |-> a]
    ELSE IntDivStep(IntDiv(a, VDouble(b)), b)

\* The next `bits` bits of the quotient r / b for r < b, appended to the
\* bits q found so far, and the remainder
RECURSIVE BitsDiv(_, _, _, _)
\* The next bit, from the doubled remainder d
BitsDivStep(d, b, bits, q) ==
    IF FLeq(b, d) THEN BitsDiv(VMinus(d, b), b, bits - 1, 2 * q + 1)
    ELSE BitsDiv(d, b, bits - 1, 2 * q)

BitsDiv(r, b, bits, q) ==
    IF bits = 0 THEN [q |-> q, r |-> r]
    ELSE BitsDivStep(VDouble(r), b, bits, q)

\* a / b for b an integer below 2^10: long division limb by limb, rem being
\* the remainder so far; the quotient is rounded with the last remainder as
\* sticky bit
RECURSIVE SmallDiv(_, _, _, _)
SmallDiv(a, n, rem, limbs) ==
    IF Len(limbs) = 4 THEN FRound(limbs, rem # 0)
    ELSE SmallDiv(a, n, (rem * Limb + a[Len(limbs) + 1]) % n,
                  Append(limbs, (rem * Limb + a[Len(limbs) + 1]) \div n))

\* The fraction limbs of a / b bit by bit down to 2^-60, after the limbs
\* found so far, l being the last limb found and the remainder; the quotient
\* is rounded with the last remainder as sticky bit.  (A quotient below 2^-7
\* has significant bits under 2^-60, which are dropped; the code only takes
\* the floor of such a quotient.)
RECURSIVE FracDiv(_, _, _)
FracDiv(l, b, limbs) ==
    IF Len(limbs) = 3 THEN FRound(Append(limbs, l.q), l.r # FromInt(0))
    ELSE FracDiv(BitsDiv(l.r, b, LimbBits, 0), b, Append(limbs, l.q))

\* a / b for b > 0
FDiv(a, b) ==
    IF IsSmallInt(b) THEN SmallDiv(a, b[1], 0, <<>>)
    ELSE FracDiv(IntDiv(a, b), b, <<>>)

(***************************************************************************)
(* Configuration                                                           *)
(***************************************************************************)
Sunday == 0

Friday == 5

Saturday == 6

DaysPerWeek == 7

HoursPerDay == 24

MinutesPerHour == 60

\* const SESSIONS: start and end are hours of the day in ET
SESSIONS ==
    [n \in {"Asia Range", "London Killzone", "NY Killzone", "Post Trade"} |->
        CASE n = "Asia Range"      -> [name |-> n, start |-> FromInt(20), end |-> FromInt(24)]
          [] n = "London Killzone" -> [name |-> n, start |-> FromInt(2), end |-> FromInt(5)]
          [] n = "NY Killzone"     -> [name |-> n, start |-> FAdd(FromInt(9), FHalf), end |-> FromInt(11)]
          [] n = "Post Trade"      -> [name |-> n, start |-> FromInt(11), end |-> FromInt(20)]]

SessionNames == DOMAIN SESSIONS

\* The values getETTime() can return, as far as the code reads them:
\* getDay(), getHours(), getMinutes().
Instants == [day : 0 .. DaysPerWeek - 1, hour : 0 .. HoursPerDay - 1, minute : 0 .. MinutesPerHour - 1]

\* const currentTime = hour + minute / 60
CurrentTime(n) == FAdd(FromInt(n.hour), FDiv60(n.minute))

(***************************************************************************)
(* Helper functions of App.js                                              *)
(***************************************************************************)
\* isWeekend with the Friday boundary excluded (currentTime > 17)
isWeekend_FridayStrict(n) ==
    LET currentTime == CurrentTime(n)
    IN  IF n.day = Friday /\ FLess(FromInt(17), currentTime) THEN TRUE
        ELSE IF n.day = Saturday THEN TRUE
        ELSE IF n.day = Sunday /\ FLess(currentTime, FromInt(18)) THEN TRUE
        ELSE FALSE

\* isWeekend with the Friday closure starting at 18:00
isWeekend_FridaySix(n) ==
    LET currentTime == CurrentTime(n)
    IN  IF n.day = Friday /\ FLeq(FromInt(18), currentTime) THEN TRUE
        ELSE IF n.day = Saturday THEN TRUE
        ELSE IF n.day = Sunday /\ FLess(currentTime, FromInt(18)) THEN TRUE
        ELSE FALSE

\* isWeekend treating the whole of Sunday as weekend
isWeekend_WholeSunday(n) ==
    LET currentTime == CurrentTime(n)
    IN  IF n.day = Friday /\ FLeq(FromInt(17), currentTime) THEN TRUE
        ELSE IF n.day = Saturday THEN TRUE
        ELSE IF n.day = Sunday THEN TRUE
        ELSE FALSE

\* isWeekend(), n being the value of getETTime() it reads
isWeekend(n) ==
    LET currentTime == CurrentTime(n)
    IN  IF n.day = Friday /\ FLeq(FromInt(17), currentTime) THEN TRUE
        ELSE IF n.day = Saturday THEN TRUE
        ELSE IF n.day = Sunday /\ FLess(currentTime, FromInt(18)) THEN TRUE
        ELSE FALSE

\* getSessionStatus with an inclusive end (currentTime <= session.end)
getSessionStatus_InclusiveEnd(session, n) ==
    LET currentTime == CurrentTime(n)
        isOpen ==
            IF FLess(session.start, session.end)
            THEN FLeq(session.start, currentTime) /\ FLeq(currentTime, session.end)
            ELSE FLeq(session.start, currentTime) \/ FLeq(currentTime, session.end)
    IN  [isOpen |-> isOpen, currentTime |-> currentTime]

\* getSessionStatus with an exclusive start (currentTime > session.start)
getSessionStatus_StrictStart(session, n) ==
    LET currentTime == CurrentTime(n)
        isOpen ==
            IF FLess(session.start, session.end)
            THEN FLess(session.start, currentTime) /\ FLess(currentTime, session.end)
            ELSE FLess(session.start, currentTime) \/ FLess(currentTime, session.end)
    IN  [isOpen |-> isOpen, currentTime |-> currentTime]

getSessionStatus(session, n) ==
    LET currentTime == CurrentTime(n)
        isOpen ==
            IF FLess(session.start, session.end)
            THEN FLeq(session.start, currentTime) /\ FLess(currentTime, session.end)
            ELSE FLeq(session.start, currentTime) \/ FLess(currentTime, session.end)
    IN  [isOpen |-> isOpen, currentTime |-> currentTime]

\* let targetTime of getCountdown
TargetTime(session, currentTime, isOpen) ==
    IF isOpen
    THEN IF FLeq(session.end, session.start) /\ FLeq(session.start, currentTime)
         THEN FAdd(FromInt(24), session.end)
         ELSE session.end
    ELSE IF FLeq(session.start, currentTime) /\ FLeq(session.end, session.start)
         THEN FAdd(FromInt(24), session.start)
         ELSE IF FLess(session.end, currentTime) /\ FLeq(session.end, session.start)
         THEN session.start
         ELSE IF FLeq(session.end, currentTime)
         THEN IF FLess(session.start, session.end)
              THEN FAdd(FromInt(24), session.start)
              ELSE session.start
         ELSE session.start

\* let diff = targetTime - currentTime; if (diff < 0) diff += 24;
Diff(targetTime, currentTime) ==
    IF FLess(targetTime, currentTime)
    THEN FSub(FromInt(24), FSub(currentTime, targetTime))
    ELSE FSub(targetTime, currentTime)

\* getCountdown counting to today's start or end only, without the
\* next-day targets and without the wrap of a negative difference
getCountdown_NoWrap(session, n) ==
    LET currentTime == CurrentTime(n)
        isOpen  == getSessionStatus(session, n).isOpen
        target  == IF isOpen THEN session.end ELSE session.start
        behind  == FLess(target, currentTime)
        mag     == IF behind THEN FSub(currentTime, target) ELSE FSub(target, currentTime)
        whole   == FFrac(mag) = FromInt(0)
        hours   == IF behind
                   THEN (IF whole THEN 0 - FFloor(mag) ELSE 0 - FFloor(mag) - 1)
                   ELSE FFloor(mag)
        frac    == IF behind /\ ~whole THEN FSub(FromInt(1), FFrac(mag)) ELSE FFrac(mag)
        minutes == FFloor(FMul60(frac))
    IN  [hours |-> hours, minutes |-> minutes, isOpen |-> isOpen]

getCountdown(session, n) ==
    LET currentTime == CurrentTime(n)
        isOpen  == getSessionStatus(session, n).isOpen
        diff    == Diff(TargetTime(session, currentTime, isOpen), currentTime)
        hours   == FFloor(diff)
        minutes == FFloor(FMul60(FFrac(diff)))
    IN  [hours |-> hours, minutes |-> minutes, isOpen |-> isOpen]

\* SessionCard without the weekend override
SessionCard_NoOverride(session, n, weekendMode) ==
    getSessionStatus(session, n).isOpen

\* const displayOpen = isWeekendMode ? false : isOpen
SessionCard(session, n, weekendMode) ==
    IF weekendMode THEN FALSE ELSE getSessionStatus(session, n).isOpen

\* SESSIONS.map(session => <SessionCard ... now={now} isWeekendMode={isWeekendMode} />)
MarketSessions(n, weekendMode) ==
    [s \in SessionNames |-> SessionCard(SESSIONS[s], n, weekendMode)]

\* The countdown timer of every session at the instant n
Countdowns(n) == [s \in SessionNames |-> getCountdown(SESSIONS[s], n)]

(***************************************************************************)
(* Position size calculator (CalculatorTab)                                *)
(***************************************************************************)
\* const SYMBOLS
SYMBOLS ==
    [n \in {"MNQ", "MES", "MGC1!", "BTCUSD"} |->
        CASE n = "MNQ"    -> [name |-> n, valuePerPoint |-> 2, unit |-> "points"]
          [] n = "MES"    -> [name |-> n, valuePerPoint |-> 5, unit |-> "points"]
          [] n = "MGC1!"  -> [name |-> n, valuePerPoint |-> 10, unit |-> "price"]
          [] n = "BTCUSD" -> [name |-> n, valuePerPoint |-> 1, unit |-> "usd"]]

SymbolNames == DOMAIN SYMBOLS

\* The text of a number input: the empty string, or a decimal numeral with
\* one fractional digit, held as its number of tenths ("3.4" is 34).
EmptyText == [blank |-> TRUE, tenths |-> 0]

Numeral(t) == [blank |-> FALSE, tenths |-> t]

\* Bounds of the texts typed into the inputs
MaxRiskTenths == 17

MaxRiskSteps == 4

MaxStopTenths == 4

MaxStopTens == 2

MaxTpTenths == 1

RiskTexts ==
    {EmptyText} \cup {Numeral(t) : t \in -1 .. MaxRiskTenths}
                \cup {Numeral(5000 * h) : h \in 1 .. MaxRiskSteps}

StopTexts ==
    {EmptyText} \cup {Numeral(t) : t \in -1 .. MaxStopTenths}
                \cup {Numeral(100 * h) : h \in 1 .. MaxStopTens}

TpTexts == {EmptyText} \cup {Numeral(t) : t \in 0 .. MaxTpTenths}

\* parseFloat(text) || 0: the binary64 nearest to the numeral, with its sign;
\* NaN (the empty string) and 0 give 0
ParseFloatOrZero(text) ==
    IF text.blank \/ text.tenths = 0 THEN [neg |-> FALSE, mag |-> FromInt(0)]
    ELSE IF text.tenths < 0
    THEN [neg |-> TRUE, mag |-> FDiv(FromInt(0 - text.tenths), FromInt(10))]
    ELSE [neg |-> FALSE, mag |-> FDiv(FromInt(text.tenths), FromInt(10))]

\* num <= 0
NotPositive(num) == num.neg \/ num.mag = FromInt(0)

MaxContracts == 40

\* The BTCUSD branch once size is known
BTCResult(size, stopNum, tpNum) ==
    [contracts |-> size,
     totalRisk |-> FMul(size, stopNum),
     profit    |-> FMul(size, tpNum),
     isBTC     |-> TRUE]

\* The futures branch once contracts is known
FuturesResult(contracts, stopNum, tpNum, point) ==
    [contracts |-> FromInt(contracts),
     totalRisk |-> FMul(FMul(FromInt(contracts), stopNum), point),
     profit    |-> FMul(FMul(FromInt(contracts), tpNum), point),
     isBTC     |-> FALSE]

\* Math.min(contracts, 40)
CapContracts(contracts) ==
    IF contracts < MaxContracts THEN contracts ELSE MaxContracts

\* The body of the memo for the numbers parsed from the inputs
CalculationOf(symbolData, riskNum, stopNum, tpNum) ==
    IF NotPositive(riskNum) \/ NotPositive(stopNum)
    THEN [contracts |-> FromInt(0), totalRisk |-> FromInt(0),
          profit |-> FromInt(0), isBTC |-> symbolData.name = "BTCUSD"]
    ELSE IF symbolData.name = "BTCUSD"
    THEN BTCResult(FDiv(FromInt(FFloor(FMul(FDiv(riskNum.mag, stopNum.mag),
                                            FromInt(10)))), FromInt(10)),
                   stopNum.mag, tpNum.mag)
    ELSE FuturesResult(
             CapContracts(FFloor(FDiv(riskNum.mag,
                                      FMul(stopNum.mag,
                                           FromInt(symbolData.valuePerPoint))))),
             stopNum.mag, tpNum.mag, FromInt(symbolData.valuePerPoint))

\* const calculation = useMemo(...)
Calculation(sym, riskText, stopText, tpText) ==
    CalculationOf(SYMBOLS[sym], ParseFloatOrZero(riskText),
                  ParseFloatOrZero(stopText), ParseFloatOrZero(tpText))

\* getRiskTier: the dot class of a total risk
getRiskTier(totalRisk) ==
    IF FLess(totalRisk, FromInt(50)) THEN "bg-white/50"
    ELSE IF FLeq(totalRisk, FromInt(500)) THEN "bg-crtv-success"
    ELSE IF FLeq(totalRisk, FromInt(1500)) THEN "bg-crtv-warning"
    ELSE "bg-crtv-loss"

\* The render of CalculatorTab for the given inputs
CalculatorRender(sym, riskText, stopText, tpText) ==
    /\ calculation' = Calculation(sym, riskText, stopText, tpText)
    /\ riskTier' = getRiskTier(calculation'.totalRisk)

\* A fresh app: symbol "MNQ", empty inputs
CalculatorInit ==
    /\ symbol = "MNQ"
    /\ risk = EmptyText
    /\ stop = EmptyText
    /\ tp = EmptyText
    /\ calculation = Calculation(symbol, risk, stop, tp)
    /\ riskTier = getRiskTier(calculation.totalRisk)

\* onChange of the risk input: setRisk(e.target.value)
SetRisk ==
    \E text \in RiskTexts :
        /\ text # risk
        /\ risk' = text
        /\ UNCHANGED <<symbol, stop, tp>>
        /\ CalculatorRender(symbol, text, stop, tp)

\* onChange of the stop input: setStop(e.target.value)
SetStop ==
    \E text \in StopTexts :
        /\ text # stop
        /\ stop' = text
        /\ UNCHANGED <<symbol, risk, tp>>
        /\ CalculatorRender(symbol, risk, text, tp)

\* onChange of the take-profit input: setTp(e.target.value)
SetTp ==
    \E text \in TpTexts :
        /\ text # tp
        /\ tp' = text
        /\ UNCHANGED <<symbol, risk, stop>>
        /\ CalculatorRender(symbol, risk, stop, text)

\* onValueChange of the symbol selector: setSymbol
SymbolChange ==
    \E sym \in SymbolNames :
        /\ sym # symbol
        /\ symbol' = sym
        /\ UNCHANGED <<risk, stop, tp>>
        /\ CalculatorRender(sym, risk, stop, tp)

\* handleReset
HandleReset ==
    /\ <<risk, stop, tp>> # <<EmptyText, EmptyText, EmptyText>>
    /\ risk' = EmptyText
    /\ stop' = EmptyText
    /\ tp' = EmptyText
    /\ UNCHANGED symbol
    /\ CalculatorRender(symbol, EmptyText, EmptyText, EmptyText)

(***************************************************************************)
(* Trading journal (App, CalendarTab, JournalModal) and its persistence.   *)
(*                                                                         *)
(* A string is a sequence of chunks; a chunk is one character where the    *)
(* character matters (the digits of an id, the characters of the notes)    *)
(* and a whole word free of quotes and backslashes otherwise.              *)
(***************************************************************************)
\* Date.now() when the app is first opened, and the bound of the
\* milliseconds elapsed since
FirstDateNow == 8

MaxElapsed == 3

\* The later values of Date.now(): the clock advances between two adds,
\* each of which takes a click on a day, the form and a submit
LaterDateNow(t) == t + 1 .. FirstDateNow + MaxElapsed

\* Number.prototype.toString of a non-negative integer: its decimal digits
RECURSIVE Decimal(_)
Decimal(n) ==
    LET digit == <<"0", "1", "2", "3", "4", "5", "6", "7", "8", "9">>[(n % 10) + 1]
    IN  IF n < 10 THEN <<digit>> ELSE Append(Decimal(n \div 10), digit)

\* The days clicked in the calendar, as format(day, "yyyy-MM-dd")
JournalDays == {<<"2026-11-04">>, <<"2026-11-05">>}

\* The fields of the journal modal at submit: symbol, result, the text of
\* the profit input and the notes
JournalForms ==
    { [symbol |-> <<"MNQ">>, result |-> <<"win">>, profit |-> Numeral(25),
       notes |-> <<>>],
      [symbol |-> <<"BTCUSD">>, result |-> <<"loss">>, profit |-> Numeral(-1),
       notes |-> <<"a", "\"", "b">>],
      [symbol |-> <<"MES">>, result |-> <<"be">>, profit |-> EmptyText,
       notes |-> <<"\\">>] }

\* JournalModal.handleSubmit: the entryData passed to onSave
handleSubmit(form) ==
    [symbol |-> form.symbol, result |-> form.result,
     profit |-> ParseFloatOrZero(form.profit), notes |-> form.notes]

\* { ...entryData, date: format(selectedDate, "yyyy-MM-dd") }
WithDate(entryData, dateStr) ==
    [symbol |-> entryData.symbol, result |-> entryData.result,
     profit |-> entryData.profit, notes |-> entryData.notes, date |-> dateStr]

\* journalEntries.find((e) => e.date === dateStr): its index, 0 if none
getEntryForDate(entries, dateStr) ==
    IF \E i \in 1 .. Len(entries) : entries[i].date = dateStr
    THEN CHOOSE i \in 1 .. Len(entries) :
             /\ entries[i].date = dateStr
             /\ \A k \in 1 .. i - 1 : entries[k].date # dateStr
    ELSE 0

\* handleAddEntry's updater: [...prev, { ...entry, id: Date.now().toString() }]
handleAddEntry(prev, entry, t) ==
    Append(prev, [symbol |-> entry.symbol, result |-> entry.result,
                  profit |-> entry.profit, notes |-> entry.notes,
                  date |-> entry.date, id |-> Decimal(t)])

\* handleEditEntry's updater: prev.map((e) => e.id === updatedEntry.id ? updatedEntry : e)
handleEditEntry(prev, updatedEntry) ==
    [i \in 1 .. Len(prev) |->
        IF prev[i].id = updatedEntry.id THEN updatedEntry ELSE prev[i]]

\* handleDeleteEntry's updater: prev.filter((e) => e.id !== id)
handleDeleteEntry(prev, id) ==
    LET keep(e) == e.id # id
    IN  SelectSeq(prev, keep)

\* The decimal text of a number: the shortest decimal that parses back to
\* the same binary64, as digits * 10^-scale
RECURSIVE ShortestDecimal(_, _)
\* The digits near mag * 10^scale that parse back to mag, if any
ShortestFits(mag, scale, power, guess) ==
    LET fits == {c \in {guess - 1, guess, guess + 1} :
                    c >= 0 /\ FDiv(FromInt(c), power) = mag}
    IN  IF fits # {}
        THEN [digits |-> CHOOSE c \in fits : \A d \in fits : c <= d, scale |-> scale]
        ELSE ShortestDecimal(mag, scale + 1)

ShortestScaled(mag, scale, power) ==
    ShortestFits(mag, scale, power, FFloor(FMul(mag, power)))

ShortestDecimal(mag, scale) == ShortestScaled(mag, scale, FromInt(10 ^ scale))

\* JSON.stringify of a finite number (-0 does not occur: parseFloat(..) || 0)
JSONNumber(num) ==
    LET text == ShortestDecimal(num.mag, 0)
    IN  [type |-> "number", neg |-> num.neg, digits |-> text.digits,
         scale |-> text.scale]

\* The characters between the quotes of a JSON string literal: the quote and
\* the backslash are escaped
RECURSIVE Escape(_)
Escape(str) ==
    IF str = <<>> THEN <<>>
    ELSE IF Head(str) \in {"\"", "\\"}
    THEN <<"\\", Head(str)>> \o Escape(Tail(str))
    ELSE <<Head(str)>> \o Escape(Tail(str))

\* JSON.stringify of a string without escaping the quote and the backslash
JSONString_NoEscape(str) == [type |-> "string", chars |-> str]

\* JSON.stringify of a string
JSONString(str) == [type |-> "string", chars |-> Escape(str)]

\* JSON.parse of the characters between the quotes of a string literal: a
\* backslash takes the next character as it is, a bare quote ends the string
RECURSIVE Unescape(_)
Unescape(chars) ==
    IF chars = <<>> \/ Head(chars) = "\"" THEN <<>>
    ELSE IF Head(chars) = "\\"
    THEN IF Len(chars) = 1 THEN <<>>
         ELSE <<chars[2]>> \o Unescape(Tail(Tail(chars)))
    ELSE <<Head(chars)>> \o Unescape(Tail(chars))

\* JSON.parse of a value
JSONParseValue(value) ==
    IF value.type = "number"
    THEN IF value.digits = 0 THEN [neg |-> FALSE, mag |-> FromInt(0)]
         ELSE [neg |-> value.neg,
               mag |-> FDiv(FromInt(value.digits), FromInt(10 ^ value.scale))]
    ELSE Unescape(value.chars)

\* JSON.stringify of an entry: its members in insertion order
JSONObject(e) ==
    << [key |-> "symbol", value |-> JSONString(e.symbol)],
       [key |-> "result", value |-> JSONString(e.result)],
       [key |-> "profit", value |-> JSONNumber(e.profit)],
       [key |-> "notes", value |-> JSONString(e.notes)],
       [key |-> "date", value |-> JSONString(e.date)],
       [key |-> "id", value |-> JSONString(e.id)] >>

\* JSON.stringify(journalEntries)
JSONStringify(entries) == [i \in 1 .. Len(entries) |-> JSONObject(entries[i])]

\* JSON.parse of an object: one property per key, the last member winning
JSONParseObject(members) ==
    [k \in {members[i].key : i \in 1 .. Len(members)} |->
        LET last == CHOOSE i \in 1 .. Len(members) :
                        /\ members[i].key = k
                        /\ \A m \in i + 1 .. Len(members) : members[m].key # k
        IN  JSONParseValue(members[last].value)]

\* JSON.parse(saved)
JSONParse(text) == [i \in 1 .. Len(text) |-> JSONParseObject(text[i])]

\* localStorage.getItem of a key never set
NoItem == [present |-> FALSE, text |-> <<>>]

\* localStorage.setItem(STORAGE_KEYS.JOURNAL, JSON.stringify(journalEntries))
SetItem(entries) == [present |-> TRUE, text |-> JSONStringify(entries)]

\* useState's initialiser: saved ? JSON.parse(saved) : []
LoadJournal(item) == IF item.present THEN JSONParse(item.text) ELSE <<>>

\* The first visit: nothing stored, the first render not yet committed
JournalInit ==
    /\ crtv_journal = NoItem
    /\ journalEntries = LoadJournal(crtv_journal)
    /\ journalPhase = "loaded"
    /\ dateNow = FirstDateNow

\* The first visit once the first render and its effects have run
JournalMounted ==
    /\ journalEntries = <<>>
    /\ crtv_journal = SetItem(journalEntries)
    /\ journalPhase = "saved"
    /\ dateNow = FirstDateNow

\* CalendarTab.handleSaveEntry on a day without an entry: onAddEntry
AddEntry ==
    \E day \in JournalDays, form \in JournalForms, t \in LaterDateNow(dateNow) :
        /\ journalPhase = "saved"
        /\ getEntryForDate(journalEntries, day) = 0
        /\ dateNow' = t
        /\ journalEntries' =
               handleAddEntry(journalEntries, WithDate(handleSubmit(form), day), t)
        /\ journalPhase' = "changed"
        /\ UNCHANGED crtv_journal

\* CalendarTab.handleSaveEntry on a day with an entry: onEditEntry of
\* { ...editingEntry, ...entryData }
EditEntry ==
    \E day \in JournalDays, form \in JournalForms :
        LET found == getEntryForDate(journalEntries, day)
            entryData == handleSubmit(form)
        IN  /\ journalPhase = "saved"
            /\ found # 0
            /\ journalEntries' =
                   handleEditEntry(journalEntries,
                       [journalEntries[found] EXCEPT
                           !.symbol = entryData.symbol, !.result = entryData.result,
                           !.profit = entryData.profit, !.notes = entryData.notes])
            /\ journalPhase' = "changed"
            /\ UNCHANGED <<crtv_journal, dateNow>>

\* CalendarTab.handleDeleteEntry: onDeleteEntry(editingEntry.id)
DeleteEntry ==
    \E day \in JournalDays :
        LET found == getEntryForDate(journalEntries, day)
        IN  /\ journalPhase = "saved"
            /\ found # 0
            /\ journalEntries' = handleDeleteEntry(journalEntries, journalEntries[found].id)
            /\ journalPhase' = "changed"
            /\ UNCHANGED <<crtv_journal, dateNow>>

\* The render that follows a state change, and its effect
\* useEffect(() => localStorage.setItem(...), [journalEntries])
SaveJournalEffect ==
    /\ journalPhase # "saved"
    /\ crtv_journal' = SetItem(journalEntries)
    /\ journalPhase' = "saved"
    /\ UNCHANGED <<journalEntries, dateNow>>

\* The page is reloaded: App is constructed again from localStorage
Reload ==
    /\ journalEntries' = LoadJournal(crtv_journal)
    /\ journalPhase' = "loaded"
    /\ UNCHANGED <<crtv_journal, dateNow>>

(***************************************************************************)
(* The clock and the periodic update                                       *)
(***************************************************************************)
\* The wall clock one minute later
NextMinute(n) ==
    IF n.minute < MinutesPerHour - 1 THEN [n EXCEPT !.minute = n.minute + 1]
    ELSE IF n.hour < HoursPerDay - 1 THEN [n EXCEPT !.minute = 0, !.hour = n.hour + 1]
    ELSE [day |-> (n.day + 1) % DaysPerWeek, hour |-> 0, minute |-> 0]

\* function App(): the state after the first render, the app being opened at
\* any instant of the week
Init ==
    /\ now \in Instants
    /\ isWeekendMode = isWeekend(now)
    /\ displayOpen = MarketSessions(now, isWeekendMode)
    /\ countdown = Countdowns(now)
    /\ CalculatorInit
    /\ JournalMounted

\* updateTime() on the interval timer once the wall clock shows a new minute,
\* and the render that follows it.  isWeekend() and MarketSessions each read
\* the clock; both reads fall in the same minute.
Tick ==
    /\ now' = NextMinute(now)
    /\ isWeekendMode' = isWeekend(now')
    /\ displayOpen' = MarketSessions(now', isWeekendMode')
    /\ countdown' = Countdowns(now')
    /\ UNCHANGED <<calculatorVars, journalVars>>

Next == Tick

Spec == Init /\ [][Next]_vars

\* The calculator in use, within one minute of the clock: the app is opened
\* on a Wednesday at 09:30 and the inputs are edited
InitCalculator ==
    /\ now = [day |-> 3, hour |-> 9, minute |-> 30]
    /\ isWeekendMode = isWeekend(now)
    /\ displayOpen = MarketSessions(now, isWeekendMode)
    /\ countdown = Countdowns(now)
    /\ CalculatorInit
    /\ JournalMounted

NextCalculator ==
    \/ SetRisk /\ UNCHANGED <<clockVars, journalVars>>
    \/ SetStop /\ UNCHANGED <<clockVars, journalVars>>
    \/ SetTp /\ UNCHANGED <<clockVars, journalVars>>
    \/ SymbolChange /\ UNCHANGED <<clockVars, journalVars>>
    \/ HandleReset /\ UNCHANGED <<clockVars, journalVars>>

SpecCalculator == InitCalculator /\ [][NextCalculator]_vars

\* The journal in use, within one minute of the clock: the app is opened
\* for the first time on a Wednesday at 09:30 and the journal is edited
InitJournal ==
    /\ now = [day |-> 3, hour |-> 9, minute |-> 30]
    /\ isWeekendMode = isWeekend(now)
    /\ displayOpen = MarketSessions(now, isWeekendMode)
    /\ countdown = Countdowns(now)
    /\ CalculatorInit
    /\ JournalInit

NextJournal ==
    \/ AddEntry /\ UNCHANGED <<clockVars, calculatorVars>>
    \/ EditEntry /\ UNCHANGED <<clockVars, calculatorVars>>
    \/ DeleteEntry /\ UNCHANGED <<clockVars, calculatorVars>>
    \/ SaveJournalEffect /\ UNCHANGED <<clockVars, calculatorVars>>
    \/ Reload /\ UNCHANGED <<clockVars, calculatorVars>>

SpecJournal == InitJournal /\ [][NextJournal]_vars

TypeOK ==
    /\ now \in Instants
    /\ isWeekendMode \in BOOLEAN
    /\ displayOpen \in [SessionNames -> BOOLEAN]
    /\ \A s \in SessionNames :
          /\ countdown[s].hours \in 0 .. 47
          /\ countdown[s].minutes \in 0 .. 59
          /\ countdown[s].isOpen \in BOOLEAN

(***************************************************************************)
(* Vocabulary of the properties: times of day in whole minutes             *)
(***************************************************************************)
\* Minutes since midnight of the instant n
MinuteOfDay(n) == n.hour * MinutesPerHour + n.minute

\* The weekend closure window, Friday 17:00 to Sunday 18:00
InClosureWindow(n) ==
    \/ n.day = Friday /\ MinuteOfDay(n) >= 17 * 60
    \/ n.day = Saturday
    \/ n.day = Sunday /\ MinuteOfDay(n) < 18 * 60

\* The weekdays on which a session may open
ValidDays(s) == IF s = "Asia Range" THEN 0 .. 4 ELSE 1 .. 5

\* Start and end of each session in minutes since midnight
StartMinute(s) ==
    CASE s = "Asia Range"      -> 20 * 60
      [] s = "London Killzone" -> 2 * 60
      [] s = "NY Killzone"     -> 9 * 60 + 30
      [] s = "Post Trade"      -> 11 * 60

EndMinute(s) ==
    CASE s = "Asia Range"      -> 24 * 60
      [] s = "London Killzone" -> 5 * 60
      [] s = "NY Killzone"     -> 11 * 60
      [] s = "Post Trade"      -> 20 * 60

\* A countdown in whole minutes
CountdownMinutes(c) == c.hours * MinutesPerHour + c.minutes

(***************************************************************************)
(* C1  Weekend override: at every instant inside the weekend closure       *)
(* window (every Saturday instant in particular) each of the four sessions *)
(* is displayed closed.                                                    *)
(***************************************************************************)
C1_WeekendOverride ==
    InClosureWindow(now) => \A s \in SessionNames : ~displayOpen[s]

\* A Saturday instant inside London Killzone's hours: the schedule alone says
\* open, the card shows closed.
C1_Witness ==
    /\ now.day = Saturday
    /\ getSessionStatus(SESSIONS["London Killzone"], now).isOpen
    /\ ~displayOpen["London Killzone"]

(***************************************************************************)
(* C2  The weekend flag is true exactly from Friday 17:00 (inclusive) to   *)
(* Sunday 18:00 (exclusive): false at Friday 16:59, true at Friday 17:00,  *)
(* true at Sunday 17:59, false at Sunday 18:00.                            *)
(***************************************************************************)
C2_WeekendFlag == isWeekendMode <=> InClosureWindow(now)

C2_Witness ==
    /\ now = [day |-> Friday, hour |-> 17, minute |-> 0]
    /\ isWeekendMode

(***************************************************************************)
(* C3  A session is displayed open only on a weekday of its validDays set. *)
(***************************************************************************)
C3_OpenOnlyOnValidDays ==
    \A s \in SessionNames : displayOpen[s] => now.day \in ValidDays(s)

(***************************************************************************)
(* C4  Boundary inclusivity: on a valid day outside the weekend closure a  *)
(* session is displayed open exactly for start <= time < end, so it is     *)
(* open at its start and closed at its end; Asia Range, whose end is       *)
(* midnight, is closed at 00:00.                                           *)
(***************************************************************************)
C4_BoundaryInclusivity ==
    /\ \A s \in SessionNames :
          (now.day \in ValidDays(s) /\ ~InClosureWindow(now)) =>
             (displayOpen[s] <=>
                 (StartMinute(s) <= MinuteOfDay(now) /\ MinuteOfDay(now) < EndMinute(s)))
    /\ MinuteOfDay(now) = 0 => ~displayOpen["Asia Range"]

\* Wednesday 11:00: the end of NY Killzone (closed) and the start of Post
\* Trade (open) at the same instant.
C4_Witness ==
    /\ now = [day |-> 3, hour |-> 11, minute |-> 0]
    /\ ~displayOpen["NY Killzone"]
    /\ displayOpen["Post Trade"]

(***************************************************************************)
(* C5  Early close: Post Trade is displayed open on Friday at 16:59 and    *)
(* closed on Friday at 17:00 and at every later minute of Friday.          *)
(***************************************************************************)
C5_FridayEarlyClose ==
    now.day = Friday =>
        /\ MinuteOfDay(now) = 16 * 60 + 59 => displayOpen["Post Trade"]
        /\ MinuteOfDay(now) >= 17 * 60 => ~displayOpen["Post Trade"]

\* Friday 17:00: inside Post Trade's 11:00-20:00 hours, displayed closed.
C5_Witness ==
    /\ now = [day |-> Friday, hour |-> 17, minute |-> 0]
    /\ getSessionStatus(SESSIONS["Post Trade"], now).isOpen
    /\ ~displayOpen["Post Trade"]

(***************************************************************************)
(* C6  Midnight span: on Sunday..Thursday Asia Range is displayed open at  *)
(* every minute from 20:00 through 23:59 and closed at every minute from   *)
(* 00:00 through 19:59 (open Sunday 23:59, closed Monday 00:01).           *)
(***************************************************************************)
C6_MidnightSpan ==
    now.day \in 0 .. 4 =>
        (displayOpen["Asia Range"] <=> MinuteOfDay(now) >= 20 * 60)

C6_Witness ==
    /\ now = [day |-> Sunday, hour |-> 23, minute |-> 59]
    /\ displayOpen["Asia Range"]

(***************************************************************************)
(* C7  Next-open target: while a session is displayed closed, its          *)
(* countdown is the time to the earliest later instant that is at the      *)
(* session's start, on one of its valid days, outside the weekend closure  *)
(* (London Killzone on Saturday 03:00 counts down 47h to Monday 02:00).    *)
(***************************************************************************)
MinutesPerDay == HoursPerDay * MinutesPerHour

\* The session's start on the d-th day after the day of n
StartAfter(s, n, d) ==
    [day    |-> (n.day + d) % DaysPerWeek,
     hour   |-> StartMinute(s) \div MinutesPerHour,
     minute |-> StartMinute(s) % MinutesPerHour]

\* Minutes from n to that start
MinutesUntilStart(s, n, d) == d * MinutesPerDay + StartMinute(s) - MinuteOfDay(n)

\* The day offsets of the admissible later starts
OpeningOffsets(s, n) ==
    {d \in 0 .. DaysPerWeek :
        /\ MinutesUntilStart(s, n, d) > 0
        /\ StartAfter(s, n, d).day \in ValidDays(s)
        /\ ~InClosureWindow(StartAfter(s, n, d))}

MinutesUntilNextOpen(s, n) ==
    LET d == CHOOSE e \in OpeningOffsets(s, n) : \A f \in OpeningOffsets(s, n) : e <= f
    IN  MinutesUntilStart(s, n, d)

C7_NextOpenTarget ==
    \A s \in SessionNames :
        ~displayOpen[s] => CountdownMinutes(countdown[s]) = MinutesUntilNextOpen(s, now)

(***************************************************************************)
(* C8  Close target: while a session is displayed open, its countdown is   *)
(* the time to the session's end on the current date (to 00:00 of the next *)
(* date for Asia Range), and it is never negative.                         *)
(***************************************************************************)
C8_CloseTarget ==
    \A s \in SessionNames :
        displayOpen[s] =>
            /\ CountdownMinutes(countdown[s]) = EndMinute(s) - MinuteOfDay(now)
            /\ countdown[s].hours >= 0
            /\ countdown[s].minutes >= 0

(***************************************************************************)
(* C9  On a Friday on which Post Trade is open (11:00 <= time < 17:00) its *)
(* countdown targets 17:00 of that Friday: 1h 0m at Friday 16:00.          *)
(***************************************************************************)
C9_FridayCloseTarget ==
    (/\ now.day = Friday
     /\ 11 * 60 <= MinuteOfDay(now)
     /\ MinuteOfDay(now) < 17 * 60) =>
        CountdownMinutes(countdown["Post Trade"]) = 17 * 60 - MinuteOfDay(now)

(***************************************************************************)
(* C10  Monotonic countdown: from one minute to the next inside an open    *)
(* interval of a session, its countdown decreases by exactly one minute    *)
(* (hence by t2 - t1 between any two instants of the interval).            *)
(***************************************************************************)
C10_MonotonicCountdown ==
    [][\A s \in SessionNames :
          (displayOpen[s] /\ displayOpen'[s] /\ now'.day = now.day) =>
              CountdownMinutes(countdown[s]) - CountdownMinutes(countdown'[s]) = 1]_vars

(***************************************************************************)
(* C11  For every session and every instant the countdown is computed      *)
(* (no error), it is non-negative (hours >= 0 and minutes >= 0), and it    *)
(* never reaches beyond the 7 day-steps of a week.                         *)
(***************************************************************************)
C11_NonNegativeCountdown ==
    \A s \in SessionNames :
        /\ countdown[s].hours >= 0
        /\ countdown[s].minutes >= 0
        /\ CountdownMinutes(countdown[s]) <= DaysPerWeek * MinutesPerDay

\* London Killzone after its end: the countdown targets the next day's start.
C11_Witness ==
    /\ now = [day |-> 3, hour |-> 6, minute |-> 0]
    /\ ~countdown["London Killzone"].isOpen
    /\ countdown["London Killzone"].hours = 20
    /\ countdown["London Killzone"].minutes = 0

(***************************************************************************)
(* C12  Countdown formatting: the label is "{prefix} {d}d {h}h" when       *)
(* d > 0 and "{prefix} {h}h {m}m" otherwise, prefix being "Closes in"      *)
(* exactly when the session is open, and d, h, m being the whole days,     *)
(* hours modulo 24 and minutes modulo 60 of the time until the transition. *)
(***************************************************************************)
\* The label of a countdown of `total` whole minutes
LabelOf(prefix, total) ==
    LET d == total \div MinutesPerDay
        h == (total \div MinutesPerHour) % HoursPerDay
        m == total % MinutesPerHour
    IN  IF d > 0 THEN <<prefix, d, "d", h, "h">> ELSE <<prefix, h, "h", m, "m">>

\* The label that presents the value returned by getCountdown
CountdownLabel(c) ==
    LabelOf(IF c.isOpen THEN "Closes in" ELSE "Opens in", CountdownMinutes(c))

C12_CountdownLabel ==
    \A s \in SessionNames :
        CountdownLabel(countdown[s]) =
            IF displayOpen[s]
            THEN LabelOf("Closes in", EndMinute(s) - MinuteOfDay(now))
            ELSE LabelOf("Opens in", MinutesUntilNextOpen(s, now))

(***************************************************************************)
(* Vocabulary of the calculator properties: the decimal numerals typed     *)
(***************************************************************************)
\* risk > 0 and stop > 0, read off the numerals typed
PositiveInputs ==
    /\ ~risk.blank /\ risk.tenths > 0
    /\ ~stop.blank /\ stop.tenths > 0

\* The risk entered, as the number parseFloat makes of it
RiskEntered == ParseFloatOrZero(risk).mag

\* floor(risk / (stop * valuePerPoint)) of the numerals typed, in exact
\* arithmetic (the tenths cancel)
ExactContracts ==
    risk.tenths \div (stop.tenths * SYMBOLS[symbol].valuePerPoint)

\* floor(10 * risk / stop) of the numerals typed, in exact arithmetic: the
\* number of tenths in the largest multiple of 0.1 that is <= risk / stop
ExactSizeTenths == (10 * risk.tenths) \div stop.tenths

(***************************************************************************)
(* C13  Futures (MNQ, MES, MGC1!): for risk > 0 and stop > 0 the contracts *)
(* are min(40, floor(risk / (stop * valuePerPoint))), never above 40, and  *)
(* the total risk contracts * stop * valuePerPoint never exceeds the risk  *)
(* entered; for risk <= 0 or stop <= 0 contracts, total risk and profit    *)
(* are all 0.                                                              *)
(***************************************************************************)
C13_FuturesContracts ==
    symbol # "BTCUSD" =>
        IF PositiveInputs
        THEN /\ calculation.contracts =
                    FromInt(IF ExactContracts < 40 THEN ExactContracts ELSE 40)
             /\ FLeq(calculation.contracts, FromInt(40))
             /\ FLeq(calculation.totalRisk, RiskEntered)
        ELSE /\ calculation.contracts = FromInt(0)
             /\ calculation.totalRisk = FromInt(0)
             /\ calculation.profit = FromInt(0)

(***************************************************************************)
(* C14  BTCUSD: for risk > 0 and stop > 0 the size is the largest multiple *)
(* of 0.1 that is <= risk / stop, without the cap of 40, and size * stop   *)
(* never exceeds the risk entered.                                         *)
(***************************************************************************)
C14_BTCSize ==
    (symbol = "BTCUSD" /\ PositiveInputs) =>
        /\ calculation.contracts = FDiv(FromInt(ExactSizeTenths), FromInt(10))
        /\ FLeq(calculation.totalRisk, RiskEntered)

(***************************************************************************)
(* C15  Risk tiers: a total risk <= 500 is in the low (green) tier, one    *)
(* > 500 and <= 1500 in the medium (yellow) tier, one > 1500 in the high   *)
(* (red) tier; every non-negative total risk is in one of the three.       *)
(***************************************************************************)
C15_RiskTiers ==
    riskTier =
        IF FLeq(calculation.totalRisk, FromInt(500)) THEN "bg-crtv-success"
        ELSE IF FLeq(calculation.totalRisk, FromInt(1500)) THEN "bg-crtv-warning"
        ELSE "bg-crtv-loss"

(***************************************************************************)
(* C16  Journal persistence: once the render that follows an add, edit or  *)
(* delete has finished, the list stored under crtv_journal equals the      *)
(* journal list in memory, and a reload then restores exactly the entries  *)
(* (same ids, dates and fields, same order) that existed before it.        *)
(***************************************************************************)
C16_JournalPersistence ==
    /\ [](journalPhase = "saved" =>
            /\ crtv_journal.present
            /\ JSONParse(crtv_journal.text) = journalEntries)
    /\ [][(journalPhase = "saved" /\ journalPhase' = "loaded") =>
            journalEntries' = journalEntries]_vars

\* Two entries, one of them with a quote in its notes and a negative profit,
\* have been saved, and the app has been reloaded from them
C16_Witness ==
    /\ journalPhase = "loaded"
    /\ crtv_journal.present
    /\ Len(journalEntries) = 2
    /\ journalEntries[1].date # journalEntries[2].date
    /\ \E i \in 1 .. 2 :
          /\ journalEntries[i].notes = <<"a", "\"", "b">>
          /\ journalEntries[i].profit.neg
          /\ Len(journalEntries[i].id) = 2

(***************************************************************************)
(* C17  At every instant at most one of the four sessions is open by       *)
(* getSessionStatus; at exactly 11:00 Post Trade is open and NY Killzone   *)
(* is closed.                                                              *)
(***************************************************************************)
C17_AtMostOneOpen ==
    /\ Cardinality({s \in SessionNames : countdown[s].isOpen}) <= 1
    /\ MinuteOfDay(now) = 11 * 60 =>
          (countdown["Post Trade"].isOpen /\ ~countdown["NY Killzone"].isOpen)

C17_Witness ==
    /\ now = [day |-> 2, hour |-> 11, minute |-> 0]
    /\ countdown["Post Trade"].isOpen
    /\ ~countdown["NY Killzone"].isOpen

====
